---- MODULE Spec2Model ----
(***************************************************************************)
(* A model of app.py (Customer Price Manager): the order-reconciliation    *)
(* engine (sheet loading, order-text parsing, price resolution, the edit   *)
(* overlay, totals) and the script runs of the Streamlit session that      *)
(* drive it.                                                               *)
(*                                                                         *)
(* Text is modelled as a sequence of characters, each character a one-     *)
(* element atom.  The module is ASCII only, so the non-ASCII characters of *)
(* the source are written as named atoms: FwComma is U+FF0C, Zong Jia is   *)
(* the total-line marker U+603B U+4EF7, and so on.  Prices are naturals    *)
(* (an amount in the smallest currency unit).                              *)
(***************************************************************************)
EXTENDS Integers, Sequences, FiniteSets, TLC

VARIABLES
    original_file_bytes,  \* st.session_state.original_file_bytes (a file id, or NoFile)
    customers,            \* st.session_state.customers: sequence of customer records
    products,             \* st.session_state.products: insertion-ordered dict, as a sequence
    customer_row_map,     \* st.session_state.customer_row_map: name -> customer record
    customer_edits,       \* st.session_state.customer_edits: name -> overlay entry
    data_loaded,          \* st.session_state.data_loaded
    uploaded_file,        \* the file_uploader widget: a file id, or NoFile
    customer_selector,    \* the selectbox widget (key "customer_selector"), 1-based
    error,                \* what the last script run reported through st.error
    now,                  \* datetime.now(), as a logical clock
    last,                 \* the operation the last step performed, with its arguments
    call                  \* the call of a function under test: its argument and result

vars == <<original_file_bytes, customers, products, customer_row_map,
          customer_edits, data_loaded, uploaded_file, customer_selector,
          error, now, last, call>>

\* st.session_state, as one value: the engine's functions below take it as ss
SS == [original_file_bytes |-> original_file_bytes,
       customers |-> customers,
       products |-> products,
       customer_row_map |-> customer_row_map,
       customer_edits |-> customer_edits,
       data_loaded |-> data_loaded]

-----------------------------------------------------------------------------
(* Characters and strings *)

NL == "\n"
FwComma == "U+FF0C"
FwStop == "U+3002"
FwSemi == "U+FF1B"
Zong == "U+603B"
Jia == "U+4EF7"

Digits == {"0", "1", "2", "3", "4", "5", "6", "7", "8", "9"}

DigitVal(c) ==
    CASE c = "0" -> 0 [] c = "1" -> 1 [] c = "2" -> 2 [] c = "3" -> 3
      [] c = "4" -> 4 [] c = "5" -> 5 [] c = "6" -> 6 [] c = "7" -> 7
      [] c = "8" -> 8 [] c = "9" -> 9

\* \s of the regular expressions and the whitespace of str.strip / str.split
IsSpace(c) == c \in {" ", NL}

IsDigit(c) == c \in Digits

\* s[i:j] of Python with 1-based i and exclusive j
Slice(s, i, j) == SubSeq(s, i, j - 1)

RECURSIVE SkipSpace(_, _)
\* the first position at or after i that holds no whitespace (Len + 1 at the end)
SkipSpace(t, i) ==
    IF i <= Len(t) /\ IsSpace(t[i]) THEN SkipSpace(t, i + 1) ELSE i

RECURSIVE SkipDigits(_, _)
SkipDigits(t, i) ==
    IF i <= Len(t) /\ IsDigit(t[i]) THEN SkipDigits(t, i + 1) ELSE i

RECURSIVE LStripSet(_, _)
\* re.sub(r'^[set]+', '', s)
LStripSet(s, set) ==
    IF s # <<>> /\ Head(s) \in set THEN LStripSet(Tail(s), set) ELSE s

RECURSIVE RStripSet(_, _)
\* re.sub(r'[set]+$', '', s)
RStripSet(s, set) ==
    IF s # <<>> /\ s[Len(s)] \in set
    THEN RStripSet(SubSeq(s, 1, Len(s) - 1), set)
    ELSE s

\* str.strip()
Strip(s) == RStripSet(LStripSet(s, {" ", NL}), {" ", NL})

\* sub in s  (substring test)
Contains(s, sub) ==
    \E i \in 1..(Len(s) - Len(sub) + 1) : SubSeq(s, i, i + Len(sub) - 1) = sub

RECURSIVE DigitsVal(_)
\* int(qty_str) of a run of decimal digits
DigitsVal(ds) ==
    IF ds = <<>> THEN 0
    ELSE 10 * DigitsVal(SubSeq(ds, 1, Len(ds) - 1)) + DigitVal(ds[Len(ds)])

-----------------------------------------------------------------------------
(* parse_customer_items *)

Min(S) == CHOOSE m \in S : \A o \in S : m <= o

Max(S) == CHOOSE m \in S : \A o \in S : m >= o

TotalMarker == <<Zong, Jia>>

Separators == {FwComma, ","}

CleanChars == {" ", NL, ",", FwComma, FwStop, FwSemi}

\* The part of the pattern after the lazy group, r'\s*x\s*(\d+)\s*(?:FwComma|,|$)',
\* tried at position e.  Every quantifier in it is followed by a character outside
\* its class, so the greedy choice is the only one that can succeed.
TailMatch(t, e) ==
    LET p1 == SkipSpace(t, e)
        p2 == SkipSpace(t, p1 + 1)
        p3 == SkipDigits(t, p2)
        p4 == SkipSpace(t, p3)
        fail == [ok |-> FALSE, qty_str |-> <<>>, end |-> 0]
    IN  IF p1 > Len(t) \/ t[p1] # "x" THEN fail
        ELSE IF p3 = p2 THEN fail
        ELSE IF p4 > Len(t) THEN [ok |-> TRUE, qty_str |-> Slice(t, p2, p3), end |-> p4]
        ELSE IF t[p4] \in Separators
             THEN [ok |-> TRUE, qty_str |-> Slice(t, p2, p3), end |-> p4 + 1]
        ELSE fail

RECURSIVE ShortestGroupEnd(_, _)
\* The lazy group r'(.*?)' grows one character at a time from e, as long as the
\* rest of the pattern fails after it: the end it stops at, or 0 when it meets a
\* line break ('.' matches none) or the end of the text.
ShortestGroupEnd(t, e) ==
    IF TailMatch(t, e).ok THEN e
    ELSE IF e <= Len(t) /\ t[e] # NL THEN ShortestGroupEnd(t, e + 1)
    ELSE 0

NoMatchAt == [ok |-> FALSE, group1 |-> <<>>, qty_str |-> <<>>, end |-> 0]

\* the pattern matched at s
MatchAt(t, s) ==
    LET e == ShortestGroupEnd(t, s)
    IN  IF e = 0 THEN NoMatchAt
        ELSE [ok |-> TRUE, group1 |-> Slice(t, s, e),
              qty_str |-> TailMatch(t, e).qty_str, end |-> TailMatch(t, e).end]

RECURSIVE SearchFrom(_, _)
\* re.search from position s: the first start at which the pattern matches
SearchFrom(t, s) ==
    IF s > Len(t) + 1 THEN NoMatchAt
    ELSE IF ShortestGroupEnd(t, s) # 0 THEN MatchAt(t, s)
    ELSE SearchFrom(t, s + 1)

RECURSIVE FindIter(_, _)
\* re.finditer(pattern, content_text) from position pos: the matches, left to
\* right; a match is never empty, so the next search starts at its end
FindIter(t, pos) ==
    IF ~SearchFrom(t, pos).ok THEN <<>>
    ELSE <<SearchFrom(t, pos)>> \o FindIter(t, SearchFrom(t, pos).end)

\* the two re.sub calls on the stripped group
CleanItemName(group1) ==
    RStripSet(LStripSet(Strip(group1), CleanChars), CleanChars)

RECURSIVE ItemsOfMatchesWithTotal(_)
\* ItemsOfMatches without the test for the total line
ItemsOfMatchesWithTotal(ms) ==
    IF ms = <<>> THEN <<>>
    ELSE LET item_name == CleanItemName(Head(ms).group1)
             rest == ItemsOfMatchesWithTotal(Tail(ms))
         IN  IF item_name = <<>> THEN rest
             ELSE <<[name |-> item_name, qty |-> DigitsVal(Head(ms).qty_str)]>> \o rest

RECURSIVE ItemsOfMatches(_)
\* the loop over the matches
ItemsOfMatches(ms) ==
    IF ms = <<>> THEN <<>>
    ELSE LET item_name == CleanItemName(Head(ms).group1)
             rest == ItemsOfMatches(Tail(ms))
         IN  IF item_name = <<>> THEN rest
             ELSE IF Contains(item_name, TotalMarker) THEN rest
             ELSE <<[name |-> item_name, qty |-> DigitsVal(Head(ms).qty_str)]>> \o rest

parse_customer_items(content_text) ==
    IF content_text = <<>> THEN <<>>
    ELSE ItemsOfMatches(FindIter(content_text, 1))

-----------------------------------------------------------------------------
(* similarity: difflib.SequenceMatcher(None, a, b).ratio().  The strings of  *)
(* the model are far shorter than the 200 characters at which the library's  *)
(* automatic junk heuristic starts, so no character is junk.                 *)

RECURSIVE CommonRun(_, _, _, _, _, _)
\* how far a from i and b from j agree, inside a[i:ahi] and b[j:bhi]
CommonRun(a, b, i, j, ahi, bhi) ==
    IF i < ahi /\ j < bhi /\ a[i] = b[j]
    THEN 1 + CommonRun(a, b, i + 1, j + 1, ahi, bhi)
    ELSE 0

\* SequenceMatcher.find_longest_match: the longest block, of those the one that
\* starts earliest in a, of those the one that starts earliest in b
find_longest_match(a, b, alo, ahi, blo, bhi) ==
    LET pairs == (alo..(ahi - 1)) \X (blo..(bhi - 1))
        k == Max({CommonRun(a, b, p[1], p[2], ahi, bhi) : p \in pairs} \cup {0})
        longest == {p \in pairs : CommonRun(a, b, p[1], p[2], ahi, bhi) = k}
        i == Min({p[1] : p \in longest})
        j == Min({p[2] : p \in {q \in longest : q[1] = i}})
    IN  IF k = 0 THEN [i |-> alo, j |-> blo, size |-> 0]
        ELSE [i |-> i, j |-> j, size |-> k]

RECURSIVE MatchedChars(_, _, _, _, _, _)
\* SequenceMatcher.get_matching_blocks, summed: the longest block, then the same
\* to its left and to its right
MatchedChars(a, b, alo, ahi, blo, bhi) ==
    IF alo >= ahi \/ blo >= bhi THEN 0
    ELSE LET m == find_longest_match(a, b, alo, ahi, blo, bhi)
         IN  IF m.size = 0 THEN 0
             ELSE m.size
                  + MatchedChars(a, b, alo, m.i, blo, m.j)
                  + MatchedChars(a, b, m.i + m.size, ahi, m.j + m.size, bhi)

\* The ratio 2.0 * matches / (len(a) + len(b)) as a fraction; 1.0 for two empty
\* strings.  Fractions this small are compared exactly by the floats of the code.
similarity(a, b) ==
    IF Len(a) + Len(b) = 0 THEN [num |-> 1, den |-> 1]
    ELSE [num |-> 2 * MatchedChars(a, b, 1, Len(a) + 1, 1, Len(b) + 1),
          den |-> Len(a) + Len(b)]

RatioGt(r, q) == r.num * q.den > q.num * r.den

RatioGe(r, q) == r.num * q.den >= q.num * r.den

\* fuzzy_threshold = 0.70, in hundredths
FuzzyThresholdPct == 70

FuzzyThreshold == [num |-> FuzzyThresholdPct, den |-> 100]

\* "at least 2 shared words"
MinSharedWords == 2

RECURSIVE WordEnd(_, _)
\* the first whitespace position of s at or after i (Len + 1 at the end)
WordEnd(s, i) ==
    IF i <= Len(s) /\ ~IsSpace(s[i]) THEN WordEnd(s, i + 1) ELSE i

RECURSIVE SplitWords(_)
\* set(s.split())
SplitWords(s) ==
    LET t == LStripSet(s, {" ", NL})
    IN  IF t = <<>> THEN {}
        ELSE {Slice(t, 1, WordEnd(t, 1))}
             \cup SplitWords(Slice(t, WordEnd(t, 1), Len(t) + 1))

-----------------------------------------------------------------------------
(* The catalog (an insertion-ordered dict) and the overlay *)

ProductNames(ss) == {ss.products[k].name : k \in 1..Len(ss.products)}

\* ss.products[name]['price']
ProductPrice(ss, name) ==
    LET k == CHOOSE k \in 1..Len(ss.products) : ss.products[k].name = name
    IN  ss.products[k].price

HasCustomPrice(ss, customer_name, item_name) ==
    /\ customer_name \in DOMAIN ss.customer_edits
    /\ item_name \in DOMAIN ss.customer_edits[customer_name].custom_prices

-----------------------------------------------------------------------------
(* get_item_price *)

NoMatch == [found |-> FALSE, name |-> <<>>]

RECURSIVE FuzzyScanLastWins(_, _, _, _)
\* FuzzyScan with ">=" for ">": of equal scores the last key wins
FuzzyScanLastWins(ss, item_name, k, best) ==
    IF k > Len(ss.products) THEN best
    ELSE LET score == similarity(item_name, ss.products[k].name)
         IN  FuzzyScanLastWins(ss, item_name, k + 1,
                 IF RatioGe(score, best.best_score)
                 THEN [best_score |-> score,
                       best_match |-> [found |-> TRUE, name |-> ss.products[k].name]]
                 ELSE best)

RECURSIVE FuzzyScan(_, _, _, _)
\* the loop "for product_name in products.keys()" of the fuzzy tier, from key k on
FuzzyScan(ss, item_name, k, best) ==
    IF k > Len(ss.products) THEN best
    ELSE LET score == similarity(item_name, ss.products[k].name)
         IN  FuzzyScan(ss, item_name, k + 1,
                 IF RatioGt(score, best.best_score)
                 THEN [best_score |-> score,
                       best_match |-> [found |-> TRUE, name |-> ss.products[k].name]]
                 ELSE best)

RECURSIVE KeywordScan(_, _, _, _)
\* the loop of the keyword tier, from key k on
KeywordScan(ss, item_words, k, best) ==
    IF k > Len(ss.products) THEN best
    ELSE LET shared_words == item_words \cap SplitWords(ss.products[k].name)
         IN  KeywordScan(ss, item_words, k + 1,
                 IF Cardinality(shared_words) > best.best_keyword_count
                 THEN [best_keyword_count |-> Cardinality(shared_words),
                       best_keyword_match |-> [found |-> TRUE, name |-> ss.products[k].name]]
                 ELSE best)

\* the tiers of get_item_price below the custom price: the tier that answers,
\* with the price it returns
CatalogLookup(ss, item_name) ==
    LET fuzzy == FuzzyScan(ss, item_name, 1,
                     [best_score |-> [num |-> 0, den |-> 1], best_match |-> NoMatch])
        keyword == KeywordScan(ss, SplitWords(item_name), 1,
                     [best_keyword_count |-> 0, best_keyword_match |-> NoMatch])
    IN  IF item_name \in ProductNames(ss)
        THEN [type |-> "exact", price |-> ProductPrice(ss, item_name)]
        ELSE IF /\ RatioGe(fuzzy.best_score, FuzzyThreshold)
                /\ fuzzy.best_match.found
                /\ fuzzy.best_match.name # <<>>
        THEN [type |-> "fuzzy", price |-> ProductPrice(ss, fuzzy.best_match.name)]
        ELSE IF /\ keyword.best_keyword_match.found
                /\ keyword.best_keyword_match.name # <<>>
                /\ keyword.best_keyword_count >= MinSharedWords
        THEN [type |-> "keyword",
              price |-> ProductPrice(ss, keyword.best_keyword_match.name)]
        ELSE [type |-> "not_found", price |-> 0]

\* LookupItem with the exact tier asked before the overlay
LookupItemCatalogFirst(ss, customer_name, item_name) ==
    IF item_name \in ProductNames(ss) THEN CatalogLookup(ss, item_name)
    ELSE IF HasCustomPrice(ss, customer_name, item_name)
    THEN [type |-> "custom",
          price |-> ss.customer_edits[customer_name].custom_prices[item_name]]
    ELSE CatalogLookup(ss, item_name)

\* get_item_price: the tier that answers, with the price it returns
LookupItem(ss, customer_name, item_name) ==
    IF HasCustomPrice(ss, customer_name, item_name)
    THEN [type |-> "custom",
          price |-> ss.customer_edits[customer_name].custom_prices[item_name]]
    ELSE CatalogLookup(ss, item_name)

get_item_price(ss, customer_name, item_name) ==
    LookupItem(ss, customer_name, item_name).price

-----------------------------------------------------------------------------
(* debug_item_lookup *)

\* similar_products[:3]
MaxSimilar == 3

RECURSIVE SimilarProducts(_, _, _)
\* the loop that collects the keys sharing a word with the item, from key k on
SimilarProducts(ss, item_words, k) ==
    IF k > Len(ss.products) THEN <<>>
    ELSE (IF Cardinality(item_words \cap SplitWords(ss.products[k].name)) >= 1
          THEN <<[name |-> ss.products[k].name,
                  price |-> ss.products[k].price,
                  match_words |->
                      Cardinality(item_words \cap SplitWords(ss.products[k].name)),
                  total_words |-> Cardinality(SplitWords(ss.products[k].name))]>>
          ELSE <<>>)
         \o SimilarProducts(ss, item_words, k + 1)

\* e put into a list sorted by match_words, highest first, behind its equals
InsertByMatchWords(sorted, e) ==
    LET ahead == {i \in 1..Len(sorted) : sorted[i].match_words >= e.match_words}
        n == IF ahead = {} THEN 0 ELSE Max(ahead)
    IN  SubSeq(sorted, 1, n) \o <<e>> \o SubSeq(sorted, n + 1, Len(sorted))

RECURSIVE SortByMatchWords(_)
\* similar_products.sort(key=match_words, reverse=True): a stable sort
SortByMatchWords(list) ==
    IF list = <<>> THEN <<>>
    ELSE InsertByMatchWords(SortByMatchWords(SubSeq(list, 1, Len(list) - 1)),
                            list[Len(list)])

\* list[:n]
FirstN(list, n) == SubSeq(list, 1, Min({n, Len(list)}))

\* debug_item_lookup below its two scans
DebugTiers(ss, item_name, fuzzy, keyword) ==
    IF item_name \in ProductNames(ss)
    THEN [found |-> TRUE, type |-> "exact", price |-> ProductPrice(ss, item_name),
          similar |-> <<>>]
    ELSE IF RatioGe(fuzzy.best_score, FuzzyThreshold)
    THEN [found |-> TRUE, type |-> "fuzzy",
          price |-> ProductPrice(ss, fuzzy.best_match.name), similar |-> <<>>]
    ELSE IF /\ keyword.best_keyword_match.found
            /\ keyword.best_keyword_match.name # <<>>
            /\ keyword.best_keyword_count >= MinSharedWords
    THEN [found |-> TRUE, type |-> "keyword",
          price |-> ProductPrice(ss, keyword.best_keyword_match.name),
          similar |-> <<>>]
    ELSE [found |-> FALSE, type |-> "not_found", price |-> 0,
          similar |->
              FirstN(SortByMatchWords(SimilarProducts(ss, SplitWords(item_name), 1)),
                     MaxSimilar)]

\* debug_item_lookup: it is given the item name only
debug_item_lookup(ss, item_name) ==
    DebugTiers(ss, item_name,
               FuzzyScan(ss, item_name, 1,
                   [best_score |-> [num |-> 0, den |-> 1], best_match |-> NoMatch]),
               KeywordScan(ss, SplitWords(item_name), 1,
                   [best_keyword_count |-> 0, best_keyword_match |-> NoMatch]))

-----------------------------------------------------------------------------
(* calculate_total, get_current_items, save_customer_edits *)

RECURSIVE calculate_total(_, _, _)
calculate_total(ss, items, customer_name) ==
    IF items = <<>> THEN 0
    ELSE calculate_total(ss, SubSeq(items, 1, Len(items) - 1), customer_name)
         + get_item_price(ss, customer_name, items[Len(items)].name)
           * items[Len(items)].qty

\* get_current_items taking an empty saved list for no saved list
get_current_items_if_any(ss, customer_name) ==
    IF /\ customer_name \in DOMAIN ss.customer_edits
       /\ ss.customer_edits[customer_name].items # <<>>
    THEN ss.customer_edits[customer_name].items
    ELSE IF customer_name \in DOMAIN ss.customer_row_map
    THEN parse_customer_items(ss.customer_row_map[customer_name].content)
    ELSE <<>>

get_current_items(ss, customer_name) ==
    IF customer_name \in DOMAIN ss.customer_edits
    THEN ss.customer_edits[customer_name].items
    ELSE IF customer_name \in DOMAIN ss.customer_row_map
    THEN parse_customer_items(ss.customer_row_map[customer_name].content)
    ELSE <<>>

\* dict assignment d[key] = value
DictSet(d, key, value) ==
    [k \in DOMAIN d \cup {key} |-> IF k = key THEN value ELSE d[k]]

\* save_customer_edits keeping the custom prices the entry held
save_customer_edits_merging(ss, customer_name, items, custom_prices, time) ==
    [ss EXCEPT !.customer_edits =
        DictSet(ss.customer_edits, customer_name,
                [items |-> items,
                 custom_prices |->
                     [k \in DOMAIN custom_prices
                            \cup (IF customer_name \in DOMAIN ss.customer_edits
                                  THEN DOMAIN ss.customer_edits[customer_name].custom_prices
                                  ELSE {}) |->
                         IF k \in DOMAIN custom_prices THEN custom_prices[k]
                         ELSE ss.customer_edits[customer_name].custom_prices[k]],
                 last_modified |-> time])]

\* An entry of customer_edits is made here only, with its three keys at once.
save_customer_edits(ss, customer_name, items, custom_prices, time) ==
    [ss EXCEPT !.customer_edits =
        DictSet(ss.customer_edits, customer_name,
                [items |-> items, custom_prices |-> custom_prices,
                 last_modified |-> time])]

\* the loop "for customer in st.session_state.customers" of the grand total
RECURSIVE GrandTotalFrom(_, _)
GrandTotalFrom(ss, k) ==
    IF k > Len(ss.customers) THEN 0
    ELSE calculate_total(ss, get_current_items(ss, ss.customers[k].name),
                         ss.customers[k].name)
         + GrandTotalFrom(ss, k + 1)

grand_total(ss) == GrandTotalFrom(ss, 1)

-----------------------------------------------------------------------------
(* The worksheet: rows of cells.  A cell value is None, a string or a number; *)
(* a row keeps the columns the program reads (1, 2, 3, 5 and 6).              *)

NoneCell == [t |-> "none", s |-> <<>>, n |-> 0]

StrCell(s) == [t |-> "str", s |-> s, n |-> 0]

NumCell(n) == [t |-> "num", s |-> <<>>, n |-> n]

IsNone(c) == c.t = "none"

\* the truth value of a cell value: None, "" and 0 are false
Truthy(c) == (c.t = "str" /\ c.s # <<>>) \/ (c.t = "num" /\ c.n # 0)

DigitChar(d) == CHOOSE c \in Digits : DigitVal(c) = d

RECURSIVE NatStr(_)
\* str(n) of a natural number
NatStr(n) == IF n < 10 THEN <<DigitChar(n)>> ELSE NatStr(n \div 10) \o <<DigitChar(n % 10)>>

\* str(value) of a cell value
Str(c) == IF c.t = "str" THEN c.s
          ELSE IF c.t = "num" THEN NatStr(c.n)
          ELSE <<"N", "o", "n", "e">>

\* "float(price) if price else 0.0", with ValueError caught as 0.0.  float
\* accepts a decimal numeral with surrounding whitespace; the strings of the
\* model hold no sign, point or exponent.
PriceFloat(price) ==
    IF ~Truthy(price) THEN 0
    ELSE IF price.t = "num" THEN price.n
    ELSE IF Strip(price.s) # <<>> /\ \A k \in 1..Len(Strip(price.s)) : IsDigit(Strip(price.s)[k])
    THEN DigitsVal(Strip(price.s))
    ELSE 0

SeqLabel == <<"U+5E8F", "U+53F7">>

NameLabel == <<"U+59D3", "U+540D">>

ProductLabel == <<"U+5546", "U+54C1">>

PriceLabel == <<"U+5355", Jia>>

\* the header test shared by the two find_*_section_start functions
IsHeaderRow(row, label1, label2) ==
    /\ Truthy(row.c1) /\ Truthy(row.c2)
    /\ Strip(Str(row.c1)) = label1
    /\ Strip(Str(row.c2)) = label2

\* None is 0: no row has index 0
find_customer_section_start(ws) ==
    LET hits == {r \in 1..Len(ws) : IsHeaderRow(ws[r], SeqLabel, NameLabel)}
    IN  IF hits = {} THEN 0 ELSE Min(hits)

find_product_section_start(ws) ==
    LET hits == {r \in 1..Len(ws) : IsHeaderRow(ws[r], ProductLabel, PriceLabel)}
    IN  IF hits = {} THEN 0 ELSE Min(hits)

RECURSIVE ExtractCustomers(_, _, _, _)
\* the loop "while row_idx < product_header_row"; acc holds customers and
\* customer_row_map
ExtractCustomers(ws, row_idx, product_header_row, acc) ==
    IF ~(row_idx < product_header_row) THEN acc
    ELSE LET row == ws[row_idx]
         IN  IF IsNone(row.c1) \/ IsNone(row.c2) THEN acc
             ELSE LET customer_data ==
                          [seq |-> row.c1,
                           name |-> Strip(Str(row.c2)),
                           content |-> IF Truthy(row.c3) THEN Strip(Str(row.c3)) ELSE <<>>,
                           phone |-> row.c5,
                           address |-> row.c6]
                  IN  ExtractCustomers(ws, row_idx + 1, product_header_row,
                          [customers |-> Append(acc.customers, customer_data),
                           customer_row_map |->
                               DictSet(acc.customer_row_map, customer_data.name,
                                       customer_data)])

\* the safety check of the product loop
BlankRowCap == 100

\* products[name] = {'price': price}: a new key goes last, an old key keeps its place
ProductSet(prods, name, price) ==
    IF \E k \in 1..Len(prods) : prods[k].name = name
    THEN [k \in 1..Len(prods) |->
             IF prods[k].name = name THEN [name |-> name, price |-> price] ELSE prods[k]]
    ELSE Append(prods, [name |-> name, price |-> price])

\* Where "row_idx += 1; continue" takes the loop from the blank row row_idx: past
\* the blank rows that follow it, up to the first of them beyond the safety cap.
NextProductRow(ws, row_idx, product_data_start_row) ==
    Min({r \in (row_idx + 1)..(Len(ws) + 1) :
            \/ r > Len(ws)
            \/ ~(IsNone(ws[r].c1) \/ IsNone(ws[r].c2))
            \/ r > product_data_start_row + BlankRowCap})

RECURSIVE ExtractProducts(_, _, _, _)
\* the loop "while row_idx <= ws.max_row"; a run of blank rows is one step
ExtractProducts(ws, row_idx, product_data_start_row, prods) ==
    IF ~(row_idx <= Len(ws)) THEN prods
    ELSE LET product_name == ws[row_idx].c1
             price == ws[row_idx].c2
         IN  IF IsNone(product_name) \/ IsNone(price)
             THEN IF row_idx > product_data_start_row + BlankRowCap THEN prods
                  ELSE ExtractProducts(ws, NextProductRow(ws, row_idx, product_data_start_row),
                                       product_data_start_row, prods)
             ELSE LET product_name_str == Strip(Str(product_name))
                  IN  ExtractProducts(ws, row_idx + 1, product_data_start_row,
                          IF product_name_str # <<>>
                          THEN ProductSet(prods, product_name_str, PriceFloat(price))
                          ELSE prods)

EmptyDict == [k \in {} |-> 0]

LoadFailed(err) ==
    [ok |-> FALSE, error |-> err, customers |-> <<>>, products |-> <<>>,
     customer_row_map |-> EmptyDict]

\* the return of load_excel_data when nothing fails
LoadResult(cs, prods) ==
    [ok |-> TRUE, error |-> "none", customers |-> cs.customers,
     products |-> prods, customer_row_map |-> cs.customer_row_map]

\* load_excel_data below the two calls that find the header rows
LoadSheet(ws, customer_header_row, product_header_row) ==
    IF customer_header_row = 0 THEN LoadFailed("customer_header")
    ELSE IF product_header_row = 0 THEN LoadFailed("product_header")
    ELSE LoadResult(ExtractCustomers(ws, customer_header_row + 1, product_header_row,
                        [customers |-> <<>>, customer_row_map |-> EmptyDict]),
                    ExtractProducts(ws, product_header_row + 1,
                        product_header_row + 1, <<>>))

\* load_excel_data: ok is FALSE for the return of None, None, None; error is what
\* st.error reported.  A file that is no workbook makes load_workbook raise.
load_excel_data(file) ==
    IF ~file.workbook THEN LoadFailed("exception")
    ELSE LoadSheet(file.rows, find_customer_section_start(file.rows),
                   find_product_section_start(file.rows))

-----------------------------------------------------------------------------
(* The script: one run of app.py from top to bottom per user action *)

NoFile == 0

\* The files a user can upload; a file id is an index into Files.
Row(c1, c2, c3) == [c1 |-> c1, c2 |-> c2, c3 |-> c3, c5 |-> NoneCell, c6 |-> NoneCell]

T(s) == StrCell(s)

CustomerHeader == Row(T(SeqLabel), T(NameLabel), NoneCell)

ProductHeader == Row(T(ProductLabel), T(PriceLabel), NoneCell)

BlankRow == Row(NoneCell, NoneCell, NoneCell)

Files == <<
    \* 1: two customers, two products; "ab" is no catalog key
    [workbook |-> TRUE, rows |-> <<
        CustomerHeader,
        Row(NumCell(1), T(<<"A">>), T(<<"a", " ", "x", "1">>)),
        Row(NumCell(2), T(<<"B">>), T(<<"a", "b", " ", "x", "2", FwComma, "a", " ", "x", "1">>)),
        ProductHeader,
        Row(T(<<"a">>), NumCell(3), NoneCell),
        Row(T(<<"a", "b", "c">>), NumCell(5), NoneCell)>>],
    \* 2: another sheet with a customer of the same name
    [workbook |-> TRUE, rows |-> <<
        BlankRow,
        CustomerHeader,
        Row(NumCell(1), T(<<" ", "A">>), T(<<"c", " ", "x", "2">>)),
        BlankRow,
        ProductHeader,
        Row(T(<<"c">>), T(<<"4">>), NoneCell)>>],
    \* 3: two rows with the same customer name
    [workbook |-> TRUE, rows |-> <<
        CustomerHeader,
        Row(NumCell(1), T(<<"D">>), T(<<"a", " ", "x", "1">>)),
        Row(NumCell(2), T(<<"D">>), T(<<"a", " ", "x", "2">>)),
        Row(NumCell(3), T(<<"E">>), T(<<"a", " ", "x", "1">>)),
        ProductHeader,
        Row(T(<<"a">>), NumCell(3), NoneCell)>>],
    \* 4: no customer header
    [workbook |-> TRUE, rows |-> <<
        Row(NumCell(1), T(<<"A">>), T(<<"a", " ", "x", "1">>)),
        ProductHeader,
        Row(T(<<"a">>), NumCell(3), NoneCell)>>],
    \* 5: no product header
    [workbook |-> TRUE, rows |-> <<
        CustomerHeader,
        Row(NumCell(1), T(<<"A">>), T(<<"a", " ", "x", "1">>)),
        Row(T(<<"a">>), NumCell(3), NoneCell)>>],
    \* 6: both headers, no customer row
    [workbook |-> TRUE, rows |-> <<
        CustomerHeader,
        ProductHeader,
        Row(T(<<"a">>), NumCell(3), NoneCell)>>],
    \* 7: no workbook at all
    [workbook |-> FALSE, rows |-> <<>>]
>>

FileIds == 1..Len(Files)

\* StoreLoaded that forgets the overlays when nothing is stored
StoreLoadedResetting(ss, file_bytes, r) ==
    IF r.ok /\ r.customers # <<>> /\ r.products # <<>>
    THEN [ss |-> [original_file_bytes |-> file_bytes,
                  customers |-> r.customers,
                  products |-> r.products,
                  customer_row_map |-> r.customer_row_map,
                  customer_edits |-> EmptyDict,
                  data_loaded |-> TRUE],
          error |-> r.error, attempted |-> TRUE, replaced |-> TRUE]
    ELSE [ss |-> [ss EXCEPT !.customer_edits = EmptyDict],
          error |-> r.error, attempted |-> TRUE, replaced |-> FALSE]

\* the block "if customers and products:" on the return r of load_excel_data
StoreLoaded(ss, file_bytes, r) ==
    IF r.ok /\ r.customers # <<>> /\ r.products # <<>>
    THEN [ss |-> [original_file_bytes |-> file_bytes,
                  customers |-> r.customers,
                  products |-> r.products,
                  customer_row_map |-> r.customer_row_map,
                  customer_edits |-> EmptyDict,
                  data_loaded |-> TRUE],
          error |-> r.error, attempted |-> TRUE, replaced |-> TRUE]
    ELSE [ss |-> ss, error |-> r.error, attempted |-> TRUE, replaced |-> FALSE]

\* UploadBlock without the test "original_file_bytes != file_bytes"
UploadBlockAlways(ss, file_bytes) ==
    IF file_bytes # NoFile
    THEN StoreLoaded(ss, file_bytes, load_excel_data(Files[file_bytes]))
    ELSE [ss |-> ss, error |-> "none", attempted |-> FALSE, replaced |-> FALSE]

\* the block "if uploaded_file is not None": ss after it, what st.error
\* reported, and whether the session state was replaced
UploadBlock(ss, file_bytes) ==
    IF file_bytes # NoFile /\ ss.original_file_bytes # file_bytes
    THEN StoreLoaded(ss, file_bytes, load_excel_data(Files[file_bytes]))
    ELSE [ss |-> ss, error |-> "none", attempted |-> FALSE, replaced |-> FALSE]

\* the selectbox: a stored choice that is no option any more falls back to the first
Selected(ss, selector) ==
    IF selector \in 1..Len(ss.customers) THEN selector ELSE 1

SetSession(ss) ==
    /\ original_file_bytes' = ss.original_file_bytes
    /\ customers' = ss.customers
    /\ products' = ss.products
    /\ customer_row_map' = ss.customer_row_map
    /\ customer_edits' = ss.customer_edits
    /\ data_loaded' = ss.data_loaded

\* the arguments of a save; before is the custom prices the overlay held
NoArgs == [customer_name |-> <<>>, items |-> <<>>, custom_prices |-> EmptyDict,
           before |-> EmptyDict]

Did(op, file, replaced, args) ==
    [op |-> op, file |-> file, replaced |-> replaced, args |-> args]

RECURSIVE EditedItems(_, _, _, _)
\* the loop over current_items, rows idx and later: the lines kept
EditedItems(current_items, idx, new_qty, items_to_delete) ==
    IF idx > Len(current_items) THEN <<>>
    ELSE (IF new_qty[idx] > 0 /\ idx \notin items_to_delete
          THEN <<[name |-> current_items[idx].name, qty |-> new_qty[idx]]>>
          ELSE <<>>)
         \o EditedItems(current_items, idx + 1, new_qty, items_to_delete)

RECURSIVE CustomPriceUpdates(_, _, _, _, _)
\* the same loop, rows 1..idx: custom_price_updates
CustomPriceUpdates(ss, customer_name, current_items, idx, new_price) ==
    IF idx = 0 THEN EmptyDict
    ELSE LET before == CustomPriceUpdates(ss, customer_name, current_items,
                                          idx - 1, new_price)
             current_price == get_item_price(ss, customer_name, current_items[idx].name)
         IN  IF new_price[idx] # current_price
             THEN DictSet(before, current_items[idx].name, new_price[idx])
             ELSE before

\* AddNewItem that appends a line whatever the edited items hold
AddNewItemAppending(edited_items, new_item, new_item_qty) ==
    IF new_item # <<>> /\ new_item_qty > 0
    THEN Append(edited_items, [name |-> new_item, qty |-> new_item_qty])
    ELSE edited_items

\* the block "if new_item and new_item_qty > 0"; new_item is <<>> for ""
AddNewItem(edited_items, new_item, new_item_qty) ==
    IF new_item # <<>> /\ new_item_qty > 0
    THEN LET same == {k \in 1..Len(edited_items) : edited_items[k].name = new_item}
         IN  IF same # {}
             THEN [edited_items EXCEPT ![Min(same)].qty = @ + new_item_qty]
             ELSE Append(edited_items, [name |-> new_item, qty |-> new_item_qty])
    ELSE edited_items

\* current_custom_prices.update(custom_price_updates)
DictUpdate(d, u) ==
    [k \in DOMAIN d \cup DOMAIN u |-> IF k \in DOMAIN u THEN u[k] ELSE d[k]]

CurrentCustomPrices(ss, customer_name) ==
    IF customer_name \in DOMAIN ss.customer_edits
    THEN ss.customer_edits[customer_name].custom_prices
    ELSE EmptyDict

-----------------------------------------------------------------------------
(* create_export_excel: the worksheet it fills, as rows of six cell values *)

ItemsLabel == <<"U+5546", "U+54C1", "U+5185", "U+5BB9", "U+53CA", "U+6570", "U+91CF">>

TotalLabel == <<Zong, "U+91D1", "U+989D">>

PhoneLabel == <<"U+624B", "U+673A", "U+53F7", "U+7801">>

AddressLabel == <<"U+6536", "U+8D27", "U+5730", "U+5740">>

\* headers
ExportHeaders ==
    <<StrCell(SeqLabel), StrCell(NameLabel), StrCell(ItemsLabel),
      StrCell(TotalLabel), StrCell(PhoneLabel), StrCell(AddressLabel)>>

\* f"{amount:.2f}" of an amount held in hundredths
Money(amount) ==
    NatStr(amount \div 100)
    \o <<".", DigitChar((amount % 100) \div 10), DigitChar(amount % 10)>>

\* f"{item['name']} x{item['qty']} (${subtotal:.2f})"
DetailLine(item, price) ==
    item.name \o <<" ", "x">> \o NatStr(item.qty)
    \o <<" ", "(", "$">> \o Money(price * item.qty) \o <<")">>

RECURSIVE ItemsDetail(_, _, _)
\* the loop "for item in items": items_detail
ItemsDetail(ss, customer_name, items) ==
    IF items = <<>> THEN <<>>
    ELSE <<DetailLine(Head(items), get_item_price(ss, customer_name, Head(items).name))>>
         \o ItemsDetail(ss, customer_name, Tail(items))

RECURSIVE JoinLines(_)
\* '\n'.join(lines)
JoinLines(lines) ==
    IF lines = <<>> THEN <<>>
    ELSE IF Len(lines) = 1 THEN lines[1]
    ELSE lines[1] \o <<NL>> \o JoinLines(Tail(lines))

\* the row written for one customer record, from its current items
ExportRow(ss, customer, items) ==
    <<customer.seq,
      StrCell(customer.name),
      StrCell(JoinLines(ItemsDetail(ss, customer.name, items))),
      StrCell(<<"$">> \o Money(calculate_total(ss, items, customer.name))),
      customer.phone,
      customer.address>>

RECURSIVE ExportRowsFrom(_, _)
\* the loop "for customer in st.session_state.customers", records k and later
ExportRowsFrom(ss, k) ==
    IF k > Len(ss.customers) THEN <<>>
    ELSE <<ExportRow(ss, ss.customers[k], get_current_items(ss, ss.customers[k].name))>>
         \o ExportRowsFrom(ss, k + 1)

\* create_export_excel: the rows of the sheet and its freeze_panes
create_export_excel(ss) ==
    [rows |-> <<ExportHeaders>> \o ExportRowsFrom(ss, 1),
     freeze_panes |-> <<"A", "2">>]

-----------------------------------------------------------------------------
(* The session *)

\* Save stamps datetime.now(): the clock stops the model after MaxSaves saves.
MaxSaves == 2

\* the largest quantity a number input is given
MaxQty == 2

\* the rows of the page (the add-item form counts as one) that the user touches
\* before pressing Save
MaxRowsEdited == 1

\* the prices typed into a price input; AsShown stands for leaving it alone
NewPrices == {7}

AsShown == -1

Idle == [fn |-> "none", arg |-> <<>>, done |-> TRUE, ret |-> <<>>]

SessionInit ==
    /\ original_file_bytes = NoFile
    /\ customers = <<>>
    /\ products = <<>>
    /\ customer_row_map = EmptyDict
    /\ customer_edits = EmptyDict
    /\ data_loaded = FALSE
    /\ uploaded_file = NoFile
    /\ customer_selector = 1
    /\ error = "none"
    /\ now = 0
    /\ last = Did("init", NoFile, FALSE, NoArgs)

Init == SessionInit /\ call = Idle

\* A run with nothing pressed: the upload block, then the page is drawn.
RunScript(op, file_bytes, selector) ==
    \E r \in {UploadBlock(SS, file_bytes)} :
        /\ uploaded_file' = file_bytes
        /\ SetSession(r.ss)
        /\ error' = r.error
        /\ customer_selector' = IF r.ss.data_loaded THEN Selected(r.ss, selector)
                                ELSE selector
        /\ last' = Did(op, file_bytes, r.replaced, NoArgs)
        /\ call' = Idle
        /\ UNCHANGED now

\* the user puts a file into the uploader
UploadFile(f) == RunScript("upload", f, customer_selector)

\* the user takes the file out of the uploader
RemoveFile == uploaded_file # NoFile /\ RunScript("remove", NoFile, customer_selector)

\* the user picks a customer in the sidebar
SelectCustomer(i) ==
    /\ data_loaded
    /\ i \in 1..Len(customers)
    /\ i # customer_selector
    /\ RunScript("select", uploaded_file, i)

\* a run that changes no widget the engine reads
Rerun == RunScript("rerun", uploaded_file, customer_selector)

\* the Cancel button
CancelButton == data_loaded /\ RunScript("cancel", uploaded_file, customer_selector)

\* The Export button: the run builds the export file and offers it for download;
\* the download button is gone with the next run.
ExportButton ==
    \E r \in {UploadBlock(SS, uploaded_file)} :
        /\ r.ss.data_loaded
        /\ SetSession(r.ss)
        /\ error' = r.error
        /\ customer_selector' = Selected(r.ss, customer_selector)
        /\ last' = Did("export", uploaded_file, r.replaced, NoArgs)
        /\ call' = [fn |-> "create_export_excel", arg |-> <<>>, done |-> TRUE,
                    ret |-> create_export_excel(r.ss)]
        /\ UNCHANGED <<uploaded_file, now>>

\* the customer the page shows
CustomerName(ss, selector) == ss.customers[Selected(ss, selector)].name

\* the edited lines the page builds from its inputs
PageItems(current_items, new_qty, items_to_delete, new_item, new_item_qty) ==
    AddNewItem(EditedItems(current_items, 1, new_qty, items_to_delete),
               new_item, new_item_qty)

\* the custom prices the page builds from its inputs
PagePrices(ss, customer_name, current_items, new_price) ==
    DictUpdate(CurrentCustomPrices(ss, customer_name),
               CustomPriceUpdates(ss, customer_name, current_items,
                                  Len(current_items), new_price))

\* What the Save button does with the inputs of the page, on the session state
\* ss the upload block left.
SaveWith(ss, customer_name, current_items, new_price, new_qty, items_to_delete, new_item, new_item_qty) ==
    \E items \in {PageItems(current_items, new_qty, items_to_delete,
                            new_item, new_item_qty)},
       prices \in {PagePrices(ss, customer_name, current_items, new_price)} :
        /\ \A k \in 1..Len(items) : items[k].qty <= MaxQty
        /\ SetSession(save_customer_edits(ss, customer_name, items, prices, now + 1))
        /\ last' = Did("save", uploaded_file, FALSE,
                       [customer_name |-> customer_name, items |-> items,
                        custom_prices |-> prices,
                        before |-> CurrentCustomPrices(ss, customer_name)])

\* The inputs of the page when the user has touched the rows of R only: a row
\* not touched shows its stored quantity and the price get_item_price gives, and
\* its Del box is clear.  typed[idx] is AsShown for a price input left alone.
NewPriceOf(ss, customer_name, current_items, R, typed) ==
    [idx \in 1..Len(current_items) |->
        IF idx \in R /\ typed[idx] # AsShown THEN typed[idx]
        ELSE get_item_price(ss, customer_name, current_items[idx].name)]

NewQtyOf(current_items, R, qty) ==
    [idx \in 1..Len(current_items) |->
        IF idx \in R THEN qty[idx] ELSE current_items[idx].qty]

\* the "Save to Memory" button, pressed with the inputs of the page
SaveButton ==
    /\ now < MaxSaves
    /\ \E r \in {UploadBlock(SS, uploaded_file)} :
        /\ r.ss.data_loaded
        /\ \E customer_name \in {CustomerName(r.ss, customer_selector)} :
           \E current_items \in {get_current_items(r.ss, customer_name)} :
           \E R \in SUBSET (1..Len(current_items)),
              new_item \in {<<>>} \cup ProductNames(r.ss) :
              /\ Cardinality(R) + (IF new_item = <<>> THEN 0 ELSE 1) <= MaxRowsEdited
              /\ \E typed \in [R -> NewPrices \cup {AsShown}],
                    qty \in [R -> 0..MaxQty],
                    items_to_delete \in SUBSET R,
                    new_item_qty \in (IF new_item = <<>> THEN {0} ELSE 1..MaxQty) :
                   SaveWith(r.ss, customer_name, current_items,
                            NewPriceOf(r.ss, customer_name, current_items, R, typed),
                            NewQtyOf(current_items, R, qty),
                            items_to_delete, new_item, new_item_qty)
        /\ error' = r.error
        /\ customer_selector' = Selected(r.ss, customer_selector)
    /\ now' = now + 1
    /\ call' = Idle
    /\ UNCHANGED uploaded_file

Next ==
    \/ \E f \in FileIds : UploadFile(f)
    \/ RemoveFile
    \/ \E i \in 1..Len(customers) : SelectCustomer(i)
    \/ Rerun
    \/ CancelButton
    \/ ExportButton
    \/ SaveButton

Spec == Init /\ [][Next]_vars

-----------------------------------------------------------------------------
(* save_customer_edits called directly, as the engine's saveOverlay: any items *)
(* and any custom prices, for a customer of the loaded file                    *)

ApiItems ==
    {<<>>,
     <<[name |-> <<"a">>, qty |-> 1]>>,
     <<[name |-> <<"a">>, qty |-> 2], [name |-> <<"z">>, qty |-> 1]>>}

ApiPrices ==
    {EmptyDict,
     DictSet(EmptyDict, <<"a">>, 7),
     DictSet(DictSet(EmptyDict, <<"a">>, 1), <<"z">>, 7)}

SaveCall(customer_name, items, custom_prices) ==
    /\ data_loaded
    /\ now < MaxSaves
    /\ customer_name \in DOMAIN customer_row_map
    /\ SetSession(save_customer_edits(SS, customer_name, items, custom_prices, now + 1))
    /\ now' = now + 1
    /\ last' = Did("save", uploaded_file, FALSE,
                   [customer_name |-> customer_name, items |-> items,
                    custom_prices |-> custom_prices,
                    before |-> CurrentCustomPrices(SS, customer_name)])
    /\ UNCHANGED <<uploaded_file, customer_selector, error, call>>

NextApi ==
    \/ \E f \in FileIds : UploadFile(f)
    \/ \E customer_name \in DOMAIN customer_row_map, items \in ApiItems,
          custom_prices \in ApiPrices :
           SaveCall(customer_name, items, custom_prices)

SpecApi == Init /\ [][NextApi]_vars

-----------------------------------------------------------------------------
(* parse_customer_items on its own: every text made of a few pieces *)

MaxSegments == 4

ParseSegments ==
    {<<"a">>, <<"x">>, <<"2">>, <<" ">>, <<",">>, <<FwComma>>, <<NL>>,
     <<Zong, Jia>>, <<"a", " ", "x", "1">>}

\* "apple x2<FwComma>banana x3<FwComma><Zong><Jia> x5"
ParseExample ==
    <<"a", "p", "p", "l", "e", " ", "x", "2", FwComma,
      "b", "a", "n", "a", "n", "a", " ", "x", "3", FwComma,
      Zong, Jia, " ", "x", "5">>

RECURSIVE Concats(_)
Concats(n) ==
    IF n = 0 THEN {<<>>}
    ELSE Concats(n - 1) \cup {p \o g : p \in Concats(n - 1), g \in ParseSegments}

\* "a x1,a x1<FwComma>x3<FwComma><Zong><Jia>x2"
ParseRepeated ==
    <<"a", " ", "x", "1", ",", "a", " ", "x", "1", FwComma, "x", "3", FwComma,
      Zong, Jia, "x", "2">>

ParseInputs == Concats(MaxSegments) \cup {ParseExample, ParseRepeated}

Called(fn, arg) == [fn |-> fn, arg |-> arg, done |-> FALSE, ret |-> <<>>]

InitParse ==
    /\ SessionInit
    /\ call \in {Called("parse_customer_items", t) : t \in ParseInputs}

ParseCall ==
    /\ call.fn = "parse_customer_items"
    /\ ~call.done
    /\ call' = [call EXCEPT !.done = TRUE, !.ret = parse_customer_items(call.arg)]
    /\ UNCHANGED <<original_file_bytes, customers, products, customer_row_map,
                   customer_edits, data_loaded, uploaded_file, customer_selector,
                   error, now, last>>

SpecParse == InitParse /\ [][ParseCall]_vars

-----------------------------------------------------------------------------
(* get_item_price on its own: every small catalog, one customer with or       *)
(* without a custom price, every item name of a list                          *)

MaxCatalog == 3

CatalogNames ==
    {<<"a", "b", "c", "d">>, <<"a", "b", "c", "e">>,
     <<"a", " ", "z", "z", "z", "z", " ", "b">>,
     <<"a", " ", "b", " ", "y">>, <<"x", " ", "b", " ", "a">>,
     <<"b", " ", "a", " ", "q", "q", "q", "q">>}

ItemNames ==
    {<<"a", "b", "c">>, <<"a", "b", "c", "d">>, <<"a", " ", "b">>,
     <<"a", " ", "b", " ", "x">>, <<"q">>, <<"a", " ", " ", "b", NL>>, <<>>,
     <<"a", " ", "q">>}

\* a catalog of more than MaxSimilar keys that all hold the word "a"
WideCatalog ==
    <<[name |-> <<"a", " ", "z", "z", "z", "z", " ", "b">>, price |-> 1],
      [name |-> <<"a", " ", "b", " ", "y">>, price |-> 2],
      [name |-> <<"x", " ", "b", " ", "a">>, price |-> 3],
      [name |-> <<"b", " ", "a", " ", "q", "q", "q", "q">>, price |-> 4]>>

\* the catalogs: up to MaxCatalog keys, no key twice; the k-th key costs k
RECURSIVE Catalogs(_)
Catalogs(n) ==
    IF n = 0 THEN {<<>>}
    ELSE Catalogs(n - 1)
         \cup {Append(c, [name |-> nm, price |-> Len(c) + 1]) :
                  c \in {c \in Catalogs(n - 1) : Len(c) = n - 1},
                  nm \in CatalogNames}

DistinctKeys(c) == \A i, j \in 1..Len(c) : i # j => c[i].name # c[j].name

TheCustomer == <<"A">>

InitResolve ==
    /\ original_file_bytes = NoFile
    /\ customers = <<>>
    /\ customer_row_map = EmptyDict
    /\ data_loaded = FALSE
    /\ uploaded_file = NoFile
    /\ customer_selector = 1
    /\ error = "none"
    /\ now = 0
    /\ last = Did("init", NoFile, FALSE, NoArgs)
    /\ products \in {c \in Catalogs(MaxCatalog) : DistinctKeys(c)} \cup {WideCatalog}
    /\ \E item_name \in ItemNames, fn \in {"get_item_price", "debug_item_lookup"} :
        /\ call = Called(fn, [customer_name |-> TheCustomer, item_name |-> item_name])
        /\ customer_edits \in
              {EmptyDict,
               DictSet(EmptyDict, TheCustomer,
                       [items |-> <<>>, custom_prices |-> EmptyDict,
                        last_modified |-> 0]),
               DictSet(EmptyDict, TheCustomer,
                       [items |-> <<>>,
                        custom_prices |-> DictSet(EmptyDict, item_name, 7),
                        last_modified |-> 0])}

ResolveCall ==
    /\ call.fn = "get_item_price"
    /\ ~call.done
    /\ call' = [call EXCEPT !.done = TRUE,
                            !.ret = get_item_price(SS, call.arg.customer_name,
                                                   call.arg.item_name)]
    /\ UNCHANGED <<original_file_bytes, customers, products, customer_row_map,
                   customer_edits, data_loaded, uploaded_file, customer_selector,
                   error, now, last>>

DebugCall ==
    /\ call.fn = "debug_item_lookup"
    /\ ~call.done
    /\ call' = [call EXCEPT !.done = TRUE,
                            !.ret = debug_item_lookup(SS, call.arg.item_name)]
    /\ UNCHANGED <<original_file_bytes, customers, products, customer_row_map,
                   customer_edits, data_loaded, uploaded_file, customer_selector,
                   error, now, last>>

NextResolve == ResolveCall \/ DebugCall

SpecResolve == InitResolve /\ [][NextResolve]_vars

-----------------------------------------------------------------------------
(* load_excel_data on its own: every sheet of a few rows *)

MaxRows == 4

RowKinds ==
    {CustomerHeader, ProductHeader, BlankRow,
     Row(NumCell(1), T(<<" ", "A">>), T(<<"a", " ", "x", "1">>)),
     Row(NumCell(2), T(<<" ">>), NoneCell),
     Row(T(<<"a">>), NumCell(3), NoneCell),
     Row(T(<<" ", "b", " ">>), NoneCell, NoneCell),
     Row(T(<<"c">>), T(<<"n", "/", "a">>), NoneCell),
     Row(T(<<" ">>), NumCell(4), NoneCell)}

RECURSIVE Sheets(_)
Sheets(n) ==
    IF n = 0 THEN {<<>>}
    ELSE Sheets(n - 1)
         \cup {Append(w, row) : w \in {w \in Sheets(n - 1) : Len(w) = n - 1},
                                row \in RowKinds}

\* a sheet of n rows: the customer header, one customer, the product header in
\* row 3, then a product ("p4", "p5", ...) in the rows of prows and blank rows
LongSheet(prows, n) ==
    [r \in 1..n |->
        IF r = 1 THEN CustomerHeader
        ELSE IF r = 2 THEN Row(NumCell(1), T(<<"A">>), T(<<"p", "4", " ", "x", "1">>))
        ELSE IF r = 3 THEN ProductHeader
        ELSE IF r \in prows THEN Row(T(<<"p">> \o NatStr(r)), NumCell(1), NoneCell)
        ELSE BlankRow]

\* long product sections (the data start in row 4): a product, one blank row and
\* a product around the row product_data_start_row + BlankRowCap, and a product
\* below a run of blank rows from the top
LongSheets ==
    {LongSheet({4, b, b + 2}, b + 2) : b \in {4 + BlankRowCap - 2, 4 + BlankRowCap - 1,
                                              4 + BlankRowCap}}
    \cup {LongSheet({4 + k}, 4 + k) : k \in {BlankRowCap - 1, BlankRowCap,
                                             BlankRowCap + 1, BlankRowCap + 2}}

LoadInputs ==
    {[workbook |-> TRUE, rows |-> w] : w \in Sheets(MaxRows)}
    \cup {Files[f] : f \in FileIds}
    \cup {[workbook |-> TRUE, rows |-> w] : w \in LongSheets}

InitLoad ==
    /\ SessionInit
    /\ call \in {Called("load_excel_data", file) : file \in LoadInputs}

LoadCall ==
    /\ call.fn = "load_excel_data"
    /\ ~call.done
    /\ call' = [call EXCEPT !.done = TRUE, !.ret = load_excel_data(call.arg)]
    /\ UNCHANGED <<original_file_bytes, customers, products, customer_row_map,
                   customer_edits, data_loaded, uploaded_file, customer_selector,
                   error, now, last>>

SpecLoad == InitLoad /\ [][LoadCall]_vars

-----------------------------------------------------------------------------
(* The edit loop and the add-item block on their own: every short list of     *)
(* lines, every setting of the quantity inputs and the Del boxes, every item  *)
(* of the add-item form                                                       *)

MaxLines == 2

LineNames == {<<"a">>, <<"b">>}

RECURSIVE LineLists(_)
\* the lists of up to n lines, each of quantity 1
LineLists(n) ==
    IF n = 0 THEN {<<>>}
    ELSE LineLists(n - 1)
         \cup {Append(l, [name |-> nm, qty |-> 1]) :
                  l \in {l \in LineLists(n - 1) : Len(l) = n - 1}, nm \in LineNames}

EditInputs ==
    UNION {[current_items : {l}, new_qty : [1..Len(l) -> 0..MaxQty],
            items_to_delete : SUBSET (1..Len(l)),
            new_item : {<<>>, <<"a">>, <<"b">>, <<"c">>},
            new_item_qty : 0..MaxQty] : l \in LineLists(MaxLines)}

InitEdit ==
    /\ SessionInit
    /\ call \in {Called("edit", in) : in \in EditInputs}

EditCall ==
    /\ call.fn = "edit"
    /\ ~call.done
    /\ call' = [call EXCEPT !.done = TRUE,
                            !.ret = PageItems(call.arg.current_items, call.arg.new_qty,
                                              call.arg.items_to_delete,
                                              call.arg.new_item, call.arg.new_item_qty)]
    /\ UNCHANGED <<original_file_bytes, customers, products, customer_row_map,
                   customer_edits, data_loaded, uploaded_file, customer_selector,
                   error, now, last>>

SpecEdit == InitEdit /\ [][EditCall]_vars

-----------------------------------------------------------------------------
(* Properties of the session *)

ItemNamesOf(items) == {items[k].name : k \in 1..Len(items)}

\* C1: whenever the overlay holds a custom price for the pair (c, i),
\* get_item_price(c, i) returns that price, whatever the catalog holds for i and
\* whether or not the overlay's items list holds i.
C1_CustomPriceWins ==
    \A c \in DOMAIN customer_edits :
        \A i \in DOMAIN customer_edits[c].custom_prices :
            get_item_price(SS, c, i) = customer_edits[c].custom_prices[i]

\* C1's case: a custom price for an exact catalog key of another price, for an
\* item the overlay's items list does not hold, has been saved and is returned.
C1_Witness ==
    /\ last.op = "save"
    /\ \E c \in DOMAIN customer_edits :
        \E i \in DOMAIN customer_edits[c].custom_prices :
            /\ i \in ProductNames(SS)
            /\ ProductPrice(SS, i) # customer_edits[c].custom_prices[i]
            /\ i \notin ItemNamesOf(customer_edits[c].items)
            /\ get_item_price(SS, c, i) = customer_edits[c].custom_prices[i]

\* C2: right after save(n, items, prices), get_current_items(n) is items itself.
C2_SaveThenGetCurrentItems ==
    last.op = "save" =>
        get_current_items(SS, last.args.customer_name) = last.args.items

\* C2's case: the saved sequence is empty although the customer's original
\* content parses to a line, and get_current_items returns the empty sequence.
C2_Witness ==
    /\ last.op = "save"
    /\ last.args.items = <<>>
    /\ parse_customer_items(customer_row_map[last.args.customer_name].content) # <<>>
    /\ get_current_items(SS, last.args.customer_name) = <<>>

HasCustomerHeader(file) ==
    file.workbook /\ \E r \in 1..Len(file.rows) :
                         IsHeaderRow(file.rows[r], SeqLabel, NameLabel)

HasProductHeader(file) ==
    file.workbook /\ \E r \in 1..Len(file.rows) :
                         IsHeaderRow(file.rows[r], ProductLabel, PriceLabel)

\* every customer's current items are the parse of the content that the load
\* result r holds for its name
OnlyParsedData(ss, r) ==
    \A k \in 1..Len(ss.customers) :
        /\ ss.customers[k].name \in DOMAIN r.customer_row_map
        /\ get_current_items(ss, ss.customers[k].name)
              = parse_customer_items(r.customer_row_map[ss.customers[k].name].content)

\* C3, as claimed: a second load, of a different file in which both headers are
\* found, leaves an empty overlay map and the customers, the catalog and the
\* current items of the new file only.
C3_ReloadDiscardsOverlays ==
    [][\A f \in FileIds :
          (/\ UploadFile(f)
           /\ data_loaded
           /\ f # original_file_bytes
           /\ HasCustomerHeader(Files[f]) /\ HasProductHeader(Files[f]))
          => /\ customer_edits' = EmptyDict
             /\ customers' = load_excel_data(Files[f]).customers
             /\ products' = load_excel_data(Files[f]).products
             /\ OnlyParsedData(SS', load_excel_data(Files[f]))]_vars

\* C4: a run that loads a file lacking the customer header or the product header,
\* and saves nothing, reports the error of a header that is indeed missing and
\* leaves the catalog, the customers, the lookup table, the overlay map, the
\* loaded bytes and data_loaded as they were.
C4_MissingHeaderLeavesState ==
    [][(/\ last'.op # "save"
        /\ uploaded_file' # NoFile
        /\ uploaded_file' # original_file_bytes
        /\ Files[uploaded_file'].workbook
        /\ ~(HasCustomerHeader(Files[uploaded_file'])
             /\ HasProductHeader(Files[uploaded_file'])))
       => /\ error' \in {"customer_header", "product_header"}
          /\ error' = "customer_header" => ~HasCustomerHeader(Files[uploaded_file'])
          /\ error' = "product_header" => ~HasProductHeader(Files[uploaded_file'])
          /\ SS' = SS]_vars

\* C4's case: a file without the product header was uploaded over a loaded file
\* with a saved overlay; the error names the product header and the state stays.
C4_Witness ==
    /\ last.op = "upload"
    /\ HasCustomerHeader(Files[last.file]) /\ ~HasProductHeader(Files[last.file])
    /\ error = "product_header"
    /\ data_loaded
    /\ original_file_bytes # last.file
    /\ customer_edits # EmptyDict

\* total(name)
Total(ss, customer_name) ==
    calculate_total(ss, get_current_items(ss, customer_name), customer_name)

\* C5, as claimed: a save on customer c changes the grand total by exactly the
\* change of total(c), and the total of every record of another customer stays.
C5_SaveChangesGrandTotalByDelta ==
    [][last'.op = "save" =>
        LET c == last'.args.customer_name
        IN  /\ grand_total(SS') - grand_total(SS) = Total(SS', c) - Total(SS, c)
            /\ \A k \in 1..Len(customers) :
                  customers[k].name # c =>
                      Total(SS', customers[k].name) = Total(SS, customers[k].name)]_vars

-----------------------------------------------------------------------------
(* Properties of save_customer_edits *)

\* C9: save(n, items, prices) leaves under n exactly items and prices (nothing
\* of the entry it replaces), and leaves the entries of the other customers, the
\* catalog, the customer list and the lookup table as they were.
C9_SaveReplacesEntry ==
    [][last'.op = "save" =>
        LET n == last'.args.customer_name
        IN  /\ n \in DOMAIN customer_edits'
            /\ customer_edits'[n].items = last'.args.items
            /\ customer_edits'[n].custom_prices = last'.args.custom_prices
            /\ DOMAIN customer_edits' = DOMAIN customer_edits \cup {n}
            /\ \A m \in DOMAIN customer_edits \ {n} :
                  customer_edits'[m] = customer_edits[m]
            /\ products' = products
            /\ customers' = customers
            /\ customer_row_map' = customer_row_map]_vars

\* C9's case: the entry held a custom price that the saved prices do not hold,
\* and the entry holds it no more.
C9_Witness ==
    /\ last.op = "save"
    /\ \E i \in DOMAIN last.args.before :
        /\ i \notin DOMAIN last.args.custom_prices
        /\ i \notin DOMAIN customer_edits[last.args.customer_name].custom_prices
    /\ customer_edits[last.args.customer_name].items = last.args.items

-----------------------------------------------------------------------------
(* Properties of parse_customer_items *)

\* An entry "x qty" of the text, by its shape: an x at q, whitespace, the digits
\* d1..d2 (all of the run), whitespace, then a separator or the end of the text.
EntryTails(t) ==
    {tl \in [q : 1..Len(t), d1 : 1..Len(t), d2 : 1..Len(t), end : 1..(Len(t) + 1)] :
        /\ t[tl.q] = "x"
        /\ tl.q < tl.d1 /\ tl.d1 <= tl.d2 /\ tl.d2 < tl.end
        /\ \A p \in (tl.q + 1)..(tl.d1 - 1) : IsSpace(t[p])
        /\ \A p \in tl.d1..tl.d2 : IsDigit(t[p])
        /\ ~IsDigit(t[tl.d1 - 1])
        /\ tl.d2 = Len(t) \/ ~IsDigit(t[tl.d2 + 1])
        /\ \/ /\ tl.end = Len(t) + 1
              /\ \A p \in (tl.d2 + 1)..Len(t) : IsSpace(t[p])
           \/ /\ t[tl.end - 1] \in Separators
              /\ \A p \in (tl.d2 + 1)..(tl.end - 2) : IsSpace(t[p])}

\* The name in front of the entry at q, of the text after prev: what lies
\* between the last line break and the x, without the separators and the
\* whitespace around it.
EntryName(t, prev, q) ==
    LET blank(p) == \A w \in p..(q - 1) : IsSpace(t[w])
        inLine == {p \in prev..(q - 1) : \A o \in p..(q - 1) : t[o] = NL => blank(o)}
        keep == {p \in inLine : t[p] \notin CleanChars}
    IN  IF keep = {} THEN <<>> ELSE SubSeq(t, Min(keep), Max(keep))

RECURSIVE EntriesFrom(_, _)
\* the entries of t whose x lies at prev or after it, in the order of the text
EntriesFrom(t, prev) ==
    LET tails == {tl \in EntryTails(t) : tl.q >= prev}
    IN  IF tails = {} THEN <<>>
        ELSE LET tl == CHOOSE tl \in tails : \A o \in tails : tl.q <= o.q
                 name == EntryName(t, prev, tl.q)
                 rest == EntriesFrom(t, tl.end)
             IN  IF name = <<>> \/ Contains(name, TotalMarker) THEN rest
                 ELSE <<[name |-> name, qty |-> DigitsVal(SubSeq(t, tl.d1, tl.d2))]>>
                      \o rest

Apple == <<"a", "p", "p", "l", "e">>

Banana == <<"b", "a", "n", "a", "n", "a">>

\* C8: parse_customer_items returns the entries of the text in the order of the
\* text, one per entry (the same name twice gives two), none with an empty name
\* or a name that holds the total-line marker; the example content gives apple 2,
\* banana 3.
C8_ParseEntries ==
    (call.fn = "parse_customer_items" /\ call.done) =>
        /\ call.ret = EntriesFrom(call.arg, 1)
        /\ \A k \in 1..Len(call.ret) :
              /\ call.ret[k].name # <<>>
              /\ ~Contains(call.ret[k].name, TotalMarker)
        /\ call.arg = ParseExample =>
              call.ret = <<[name |-> Apple, qty |-> 2], [name |-> Banana, qty |-> 3]>>

\* C8's case: a text with the same name twice, a total line and an entry without
\* a name has been parsed; the two equal entries are both returned, in order.
C8_Witness ==
    /\ call.fn = "parse_customer_items" /\ call.done
    /\ call.arg = ParseRepeated
    /\ call.ret = <<[name |-> <<"a">>, qty |-> 1], [name |-> <<"a">>, qty |-> 1]>>

-----------------------------------------------------------------------------
(* Properties of get_item_price *)

\* the similarity of the item name to the k-th catalog key
ScoreOf(item_name, k) == similarity(item_name, products[k].name)

\* the number of whitespace-separated tokens the item name shares with the key
SharedOf(item_name, k) ==
    Cardinality(SplitWords(item_name) \cap SplitWords(products[k].name))

\* the first key, in catalog order, among the keys of the greatest similarity
BestFuzzyKey(item_name) ==
    Min({k \in 1..Len(products) :
            \A j \in 1..Len(products) : RatioGe(ScoreOf(item_name, k), ScoreOf(item_name, j))})

\* the first key, in catalog order, among the keys that share the most tokens
BestKeywordKey(item_name) ==
    Min({k \in 1..Len(products) :
            \A j \in 1..Len(products) : SharedOf(item_name, k) >= SharedOf(item_name, j)})

\* The cascade as the specification words it: custom price, exact key, best
\* similarity at or above the threshold, most shared tokens if at least
\* MinSharedWords, else 0.
CascadePrice(customer_name, item_name) ==
    IF /\ customer_name \in DOMAIN customer_edits
       /\ item_name \in DOMAIN customer_edits[customer_name].custom_prices
    THEN customer_edits[customer_name].custom_prices[item_name]
    ELSE IF \E k \in 1..Len(products) : products[k].name = item_name
    THEN products[CHOOSE k \in 1..Len(products) : products[k].name = item_name].price
    ELSE IF products = <<>> THEN 0
    ELSE IF RatioGe(ScoreOf(item_name, BestFuzzyKey(item_name)), FuzzyThreshold)
    THEN products[BestFuzzyKey(item_name)].price
    ELSE IF SharedOf(item_name, BestKeywordKey(item_name)) >= MinSharedWords
    THEN products[BestKeywordKey(item_name)].price
    ELSE 0

\* C7: get_item_price returns the price of the first tier of the cascade that
\* answers; a tie inside the fuzzy or the keyword tier goes to the key met first
\* in catalog order.
C7_ResolveIsCascade ==
    (call.fn = "get_item_price" /\ call.done) =>
        call.ret = CascadePrice(call.arg.customer_name, call.arg.item_name)

\* C7's case: no custom price, no exact key, two keys tie on the greatest
\* similarity, which reaches the threshold, and the price of the earlier one is
\* returned.
C7_Witness ==
    /\ call.fn = "get_item_price" /\ call.done
    /\ ~HasCustomPrice(SS, call.arg.customer_name, call.arg.item_name)
    /\ call.arg.item_name \notin ProductNames(SS)
    /\ \E j, k \in 1..Len(products) :
        /\ j < k
        /\ j = BestFuzzyKey(call.arg.item_name)
        /\ ScoreOf(call.arg.item_name, j) = ScoreOf(call.arg.item_name, k)
        /\ RatioGe(ScoreOf(call.arg.item_name, j), FuzzyThreshold)
        /\ products[j].price # products[k].price
        /\ call.ret = products[j].price

-----------------------------------------------------------------------------
(* Properties of load_excel_data *)

\* the first row below the customer header at which the customer list ends: a
\* row without a sequence number or without a name, the product header (or a
\* row below it), or the end of the sheet
CustomerListEnd(ws) ==
    LET top == find_customer_section_start(ws) + 1
    IN  Min({r \in top..(Len(ws) + 1) :
                \/ r = Len(ws) + 1
                \/ r >= find_product_section_start(ws)
                \/ IsNone(ws[r].c1)
                \/ IsNone(ws[r].c2)})

\* C6: after a load that succeeds, customers holds one record per row from the
\* row below the customer header up to the end of the list, in row order, each
\* name trimmed, and no record has an empty name.
C6_CustomerList ==
    (call.fn = "load_excel_data" /\ call.done /\ call.ret.ok) =>
        LET ws == call.arg.rows
            top == find_customer_section_start(ws) + 1
            n == CustomerListEnd(ws) - top
        IN  /\ Len(call.ret.customers) = n
            /\ \A k \in 1..n :
                  /\ call.ret.customers[k].seq = ws[top + k - 1].c1
                  /\ call.ret.customers[k].name = Strip(Str(ws[top + k - 1].c2))
                  /\ call.ret.customers[k].name # <<>>

\* the price cell holds nothing, or a text that is not a number
MissingOrNonNumeric(price) ==
    \/ IsNone(price)
    \/ /\ price.t = "str"
       /\ \/ Strip(price.s) = <<>>
          \/ \E k \in 1..Len(Strip(price.s)) : ~IsDigit(Strip(price.s)[k])

\* C10: after a load that succeeds, a row below the product header with a
\* non-empty trimmed name and a missing or non-numeric price, the last row of
\* that name, is in the catalog at price 0; no catalog key is empty.
C10_ProductRows ==
    (call.fn = "load_excel_data" /\ call.done /\ call.ret.ok) =>
        LET ws == call.arg.rows
            below == (find_product_section_start(ws) + 1)..Len(ws)
            key(r) == Strip(Str(ws[r].c1))
        IN  /\ \A r \in below :
                  ( /\ ~IsNone(ws[r].c1)
                    /\ key(r) # <<>>
                    /\ MissingOrNonNumeric(ws[r].c2)
                    /\ \A o \in below : (o > r /\ ~IsNone(ws[o].c1)) => key(o) # key(r) )
                  => \E k \in 1..Len(call.ret.products) :
                        call.ret.products[k] = [name |-> key(r), price |-> 0]
            /\ \A k \in 1..Len(call.ret.products) : call.ret.products[k].name # <<>>

-----------------------------------------------------------------------------
(* Properties of create_export_excel *)

RECURSIVE LinesOf(_)
\* the lines of a text that '\n'.join made
LinesOf(text) ==
    IF text = <<>> THEN <<>>
    ELSE LET breaks == {p \in 1..Len(text) : text[p] = NL}
         IN  IF breaks = {} THEN <<text>>
             ELSE <<SubSeq(text, 1, Min(breaks) - 1)>>
                  \o LinesOf(SubSeq(text, Min(breaks) + 1, Len(text)))

\* the detail line carries the item's name, its quantity, its resolved unit
\* price and the subtotal
CarriesLine(line, item, price) ==
    /\ Contains(line, item.name)
    /\ Contains(line, <<"x">> \o NatStr(item.qty))
    /\ Contains(line, Money(price))
    /\ Contains(line, Money(price * item.qty))

\* C11, as claimed: the export holds the header row and then one row per customer
\* record in load order; the row has one detail line per current item, in order,
\* each with name, quantity, unit price and subtotal, and its total is
\* total(name) at export time.
C11_ExportRows ==
    call.fn = "create_export_excel" =>
        LET rows == call.ret.rows
        IN  /\ rows[1] = ExportHeaders
            /\ Len(rows) = Len(customers) + 1
            /\ \A k \in 1..Len(customers) :
                  LET row == rows[k + 1]
                      name == customers[k].name
                      items == get_current_items(SS, name)
                      lines == LinesOf(row[3].s)
                  IN  /\ row[1] = customers[k].seq
                      /\ row[2] = StrCell(name)
                      /\ Len(lines) = Len(items)
                      /\ \A j \in 1..Len(items) :
                            CarriesLine(lines[j], items[j], get_item_price(SS, name, items[j].name))
                      /\ row[4] = StrCell(<<"$">> \o Money(Total(SS, name)))

-----------------------------------------------------------------------------
(* Properties of the product loop *)

\* a row the product loop takes for blank
IsBlankProductRow(row) == IsNone(row.c1) \/ IsNone(row.c2)

\* the number of consecutive blank rows right above row r, below the header ph
BlankRunAbove(ws, ph, r) ==
    r - 1 - Max({q \in ph..(r - 1) : q = ph \/ ~IsBlankProductRow(ws[q])})

\* C12, as claimed: every product row below the product header that has fewer
\* than BlankRowCap consecutive blank rows right above it is in the catalog.
C12_BlankRowsTolerated ==
    (call.fn = "load_excel_data" /\ call.done /\ call.ret.ok) =>
        LET ws == call.arg.rows
            ph == find_product_section_start(ws)
        IN  \A r \in (ph + 1)..Len(ws) :
                ( /\ ~IsBlankProductRow(ws[r])
                  /\ Strip(Str(ws[r].c1)) # <<>>
                  /\ BlankRunAbove(ws, ph, r) < BlankRowCap )
                => \E k \in 1..Len(call.ret.products) :
                      call.ret.products[k].name = Strip(Str(ws[r].c1))

-----------------------------------------------------------------------------
(* Properties of debug_item_lookup *)

\* the tier names of the diagnostic for the tiers of get_item_price
TierName(type) == IF type = "custom" THEN "override" ELSE type

\* C13, as claimed: debug_item_lookup reports the price get_item_price returns
\* for the customer and the item, and the tier that produced it; when nothing is
\* found it lists at most MaxSimilar catalog entries, each sharing a word with
\* the item, by shared-word count descending.
C13_DebugAgreesWithResolve ==
    (call.fn = "debug_item_lookup" /\ call.done) =>
        /\ call.ret.price = get_item_price(SS, call.arg.customer_name, call.arg.item_name)
        /\ call.ret.type
              = TierName(LookupItem(SS, call.arg.customer_name, call.arg.item_name).type)
        /\ call.ret.type = "not_found" =>
              /\ Len(call.ret.similar) <= MaxSimilar
              /\ \A k \in 1..Len(call.ret.similar) :
                    /\ call.ret.similar[k].name \in ProductNames(SS)
                    /\ SplitWords(call.arg.item_name)
                          \cap SplitWords(call.ret.similar[k].name) # {}
              /\ \A j, k \in 1..Len(call.ret.similar) :
                    j < k => call.ret.similar[j].match_words
                                >= call.ret.similar[k].match_words

-----------------------------------------------------------------------------
(* Properties of the add-item block *)

\* the indices of the lines kept by the edit loop: not deleted, quantity > 0
KeptRows(in) ==
    {i \in 1..Len(in.current_items) :
        in.new_qty[i] > 0 /\ i \notin in.items_to_delete}

\* the edited set: the kept lines in page order, with the quantities entered
KeptLines(in) ==
    LET rows == KeptRows(in)
        nth(k) == CHOOSE i \in rows : Cardinality({j \in rows : j <= i}) = k
    IN  [k \in 1..Cardinality(rows) |->
            [name |-> in.current_items[nth(k)].name, qty |-> in.new_qty[nth(k)]]]

\* the number of lines named n
LinesNamed(lines, n) == Cardinality({k \in 1..Len(lines) : lines[k].name = n})

\* C14: adding item N with quantity q > 0: if the edited set holds a line named
\* N, one such line grows by q, no other line changes and no line is added;
\* otherwise the line (N, q) is appended at the end and no other line changes.
C14_AddItemMerges ==
    (call.fn = "edit" /\ call.done /\ call.arg.new_item # <<>>
        /\ call.arg.new_item_qty > 0) =>
        LET edited == KeptLines(call.arg)
            N == call.arg.new_item
            q == call.arg.new_item_qty
        IN  IF LinesNamed(edited, N) > 0
            THEN /\ Len(call.ret) = Len(edited)
                 /\ LinesNamed(call.ret, N) = LinesNamed(edited, N)
                 /\ \E k \in 1..Len(edited) :
                       /\ edited[k].name = N
                       /\ call.ret = [edited EXCEPT ![k].qty = edited[k].qty + q]
            ELSE call.ret = Append(edited, [name |-> N, qty |-> q])

\* C14's case: of two lines named N the first was deleted; the add grows the line
\* that was kept and adds no line.
C14_Witness ==
    /\ call.fn = "edit" /\ call.done
    /\ call.arg.new_item_qty > 0
    /\ Len(call.arg.current_items) = 2
    /\ call.arg.current_items[1].name = call.arg.new_item
    /\ call.arg.current_items[2].name = call.arg.new_item
    /\ call.arg.items_to_delete = {1}
    /\ call.arg.new_qty[2] > 0
    /\ call.ret = <<[name |-> call.arg.new_item,
                     qty |-> call.arg.new_qty[2] + call.arg.new_item_qty]>>

-----------------------------------------------------------------------------
(* Properties of the upload block *)

\* the run tried to load the uploaded bytes: they are not the loaded file's
LoadAttempted ==
    /\ uploaded_file' # NoFile
    /\ uploaded_file' # original_file_bytes

\* C15, as claimed: a load attempt on newly uploaded bytes, in a run that saves
\* nothing, either replaces the catalog, the customers and the overlay map by the
\* new file's data and reports no error, or reports an error and leaves the
\* state as it was.
C15_LoadReplacesOrReports ==
    [][(LoadAttempted /\ last'.op # "save") =>
          \/ /\ error' = "none"
             /\ original_file_bytes' = uploaded_file'
             /\ customers' = load_excel_data(Files[uploaded_file']).customers
             /\ products' = load_excel_data(Files[uploaded_file']).products
             /\ customer_row_map' = load_excel_data(Files[uploaded_file']).customer_row_map
             /\ customer_edits' = EmptyDict
             /\ data_loaded'
          \/ /\ error' # "none"
             /\ SS' = SS]_vars

-----------------------------------------------------------------------------
(* Properties of the overlay map *)

\* the file's load gives customers and products: the upload block stores it
Loadable(file) ==
    /\ load_excel_data(file).ok
    /\ load_excel_data(file).customers # <<>>
    /\ load_excel_data(file).products # <<>>

\* every key of the overlay map is the name of a customer of the loaded file
KeysAreCustomers ==
    \A n \in DOMAIN customer_edits : \E k \in 1..Len(customers) : customers[k].name = n

\* a step that is neither a Save nor a load, of bytes other than the loaded
\* file's, that succeeds
NoSaveNoLoad ==
    /\ last'.op # "save"
    /\ ~(LoadAttempted /\ Loadable(Files[uploaded_file']))

\* C16: the overlay map, the catalog and the customer records change only by a
\* Save or by a successful load of bytes that differ from the loaded file's, and
\* every key of the overlay map is the name of a customer of the loaded file.
C16_OverlayChangesOnlyBySaveOrLoad ==
    /\ []KeysAreCustomers
    /\ [][NoSaveNoLoad =>
            /\ customer_edits' = customer_edits
            /\ products' = products
            /\ customers' = customers
            /\ customer_row_map' = customer_row_map]_vars

\* C16's case: with a saved overlay in place the user has uploaded a file that
\* does not load and then pressed Export; the overlay is still there.
C16_Witness ==
    /\ last.op = "export"
    /\ uploaded_file # NoFile
    /\ uploaded_file # original_file_bytes
    /\ customer_edits # EmptyDict
    /\ KeysAreCustomers

====
